---- MODULE Spec2Model ----
(***************************************************************************)
(* Model of netlify/functions/compass.js: the per-process rate limiter,    *)
(* the safeString sanitizer and the request handler, whose invocations     *)
(* interleave at the handler's await points.                               *)
(*                                                                         *)
(* JavaScript strings are sequences of one-character strings.  JavaScript  *)
(* values are records tagged by the field t.                               *)
(***************************************************************************)
EXTENDS Integers, Sequences, FiniteSets

(* ---------------------------------------------------------------------- *)
(* Program constants                                                       *)
(* ---------------------------------------------------------------------- *)
windowMs == 2500
DefaultMax == 800
InputMax == 700
TitleMax == 140
IntroMax == 420
EntryMax == 220
StepsMax == 8
OptionalMax == 5
NoteMax == 260

(* ---------------------------------------------------------------------- *)
(* Bounds of the model                                                     *)
(* ---------------------------------------------------------------------- *)
MaxClock == 5000
MaxInFlight == 2

(* ---------------------------------------------------------------------- *)
(* Strings                                                                 *)
(* ---------------------------------------------------------------------- *)
Rep(c, n) == [i \in 1..n |-> c]

Min(a, b) == IF a < b THEN a ELSE b

\* String.prototype.slice(0, max)
Slice(s, max) == SubSeq(s, 1, Min(Len(s), max))

\* String.prototype.startsWith
StartsWith(s, p) == Len(s) >= Len(p) /\ SubSeq(s, 1, Len(p)) = p

WhiteSpace == {" ", "\n", "\t"}

\* s from its first character that is not white space
TrimLeft(s) ==
  IF \E i \in 1..Len(s) : s[i] \notin WhiteSpace
  THEN SubSeq(s, CHOOSE i \in 1..Len(s) :
                   s[i] \notin WhiteSpace /\ \A j \in 1..(i - 1) : s[j] \in WhiteSpace,
              Len(s))
  ELSE <<>>

\* s up to its last character that is not white space
TrimRight(s) ==
  IF \E i \in 1..Len(s) : s[i] \notin WhiteSpace
  THEN SubSeq(s, 1, CHOOSE i \in 1..Len(s) :
                      s[i] \notin WhiteSpace /\ \A j \in (i + 1)..Len(s) : s[j] \in WhiteSpace)
  ELSE <<>>

\* String.prototype.trim
Trim(s) == TrimRight(TrimLeft(s))

Digit(d) == <<"0", "1", "2", "3", "4", "5", "6", "7", "8", "9">>[d + 1]

RECURSIVE NumToStr(_)
NumToStr(n) == IF n < 10 THEN <<Digit(n)>> ELSE NumToStr(n \div 10) \o <<Digit(n % 10)>>

S_true == <<"t", "r", "u", "e">>
S_false == <<"f", "a", "l", "s", "e">>
S_null == <<"n", "u", "l", "l">>
S_undefined == <<"u", "n", "d", "e", "f", "i", "n", "e", "d">>
S_object == <<"[", "o", "b", "j", "e", "c", "t", " ", "O", "b", "j", "e", "c", "t", "]">>
OptionalPrefix == <<"O", "p", "t", "i", "o", "n", "a", "l", ":">>

K_title == <<"t", "i", "t", "l", "e">>
K_intro == <<"i", "n", "t", "r", "o">>
K_steps == <<"s", "t", "e", "p", "s">>
K_optional == <<"o", "p", "t", "i", "o", "n", "a", "l">>
K_note == <<"n", "o", "t", "e">>
K_ingredients == <<"i", "n", "g", "r", "e", "d", "i", "e", "n", "t", "s">>
K_choices == <<"c", "h", "o", "i", "c", "e", "s">>
K_message == <<"m", "e", "s", "s", "a", "g", "e">>
K_content == <<"c", "o", "n", "t", "e", "n", "t">>

(* ---------------------------------------------------------------------- *)
(* JavaScript values                                                       *)
(* ---------------------------------------------------------------------- *)
Undef == [t |-> "undefined"]
Null == [t |-> "null"]
BoolV(b) == [t |-> "bool", b |-> b]
NumV(n) == [t |-> "num", n |-> n]
StrV(s) == [t |-> "str", s |-> s]
ArrV(a) == [t |-> "arr", a |-> a]
\* an object is the sequence of its <<key, value>> pairs, in insertion order
ObjV(o) == [t |-> "obj", o |-> o]

\* ToBoolean
Truthy(v) ==
  CASE v.t = "undefined" -> FALSE
    [] v.t = "null" -> FALSE
    [] v.t = "bool" -> v.b
    [] v.t = "num" -> v.n # 0
    [] v.t = "str" -> v.s # <<>>
    [] OTHER -> TRUE

Nullish(v) == v.t \in {"undefined", "null"}

HasKey(v, k) == v.t = "obj" /\ \E i \in 1..Len(v.o) : v.o[i][1] = k

\* property read v[k] of a non-nullish value, for the keys the handler reads
Get(v, k) ==
  IF HasKey(v, k)
  THEN v.o[CHOOSE i \in 1..Len(v.o) : v.o[i][1] = k /\ \A j \in (i + 1)..Len(v.o) : v.o[j][1] # k][2]
  ELSE Undef

\* v?.[0]
OptFirst(v) ==
  CASE Nullish(v) -> Undef
    [] v.t = "arr" -> IF Len(v.a) >= 1 THEN v.a[1] ELSE Undef
    [] v.t = "str" -> IF Len(v.s) >= 1 THEN StrV(<<v.s[1]>>) ELSE Undef
    [] OTHER -> Undef

\* v?.k
OptGet(v, k) == IF Nullish(v) THEN Undef ELSE Get(v, k)

RECURSIVE StringOf(_)
RECURSIVE JoinElems(_, _)
\* Array.prototype.join(","): null and undefined elements give the empty string
JoinElems(a, i) ==
  IF i > Len(a) THEN <<>>
  ELSE (IF i > 1 THEN <<",">> ELSE <<>>)
       \o (IF Nullish(a[i]) THEN <<>> ELSE StringOf(a[i]))
       \o JoinElems(a, i + 1)

\* String(v)
StringOf(v) ==
  CASE v.t = "undefined" -> S_undefined
    [] v.t = "null" -> S_null
    [] v.t = "bool" -> IF v.b THEN S_true ELSE S_false
    [] v.t = "num" -> NumToStr(v.n)
    [] v.t = "str" -> v.s
    [] v.t = "arr" -> JoinElems(v.a, 1)
    [] OTHER -> S_object

safeString_NoSlice(x, max) == StringOf(IF Truthy(x) THEN x ELSE StrV(<<>>))

\* function safeString(x, max = 800)
safeString(x, max) == Slice(StringOf(IF Truthy(x) THEN x ELSE StrV(<<>>)), max)

(* ---------------------------------------------------------------------- *)
(* JSON                                                                    *)
(* ---------------------------------------------------------------------- *)
EscapeChar(c) == IF c \in {"\"", "\\"} THEN <<"\\", c>> ELSE <<c>>

\* the characters of s, a quote or a backslash preceded by a backslash
RECURSIVE EscapeStr(_)
EscapeStr(s) ==
  IF Len(s) = 0 THEN <<>>
  ELSE IF Len(s) = 1 THEN EscapeChar(s[1])
  ELSE EscapeStr(SubSeq(s, 1, Len(s) \div 2)) \o EscapeStr(SubSeq(s, Len(s) \div 2 + 1, Len(s)))

Quote(s) == <<"\"">> \o EscapeStr(s) \o <<"\"">>

RECURSIVE Stringify(_)
RECURSIVE StringifyElems(_, _)
RECURSIVE StringifyPairs(_, _, _)
StringifyElems(a, i) ==
  IF i > Len(a) THEN <<>>
  ELSE (IF i > 1 THEN <<",">> ELSE <<>>)
       \o (IF a[i].t = "undefined" THEN S_null ELSE Stringify(a[i]))
       \o StringifyElems(a, i + 1)

\* a property whose value is undefined is left out
StringifyPairs(o, i, first) ==
  IF i > Len(o) THEN <<>>
  ELSE IF o[i][2].t = "undefined" THEN StringifyPairs(o, i + 1, first)
  ELSE (IF first THEN <<>> ELSE <<",">>)
       \o Quote(o[i][1]) \o <<":">> \o Stringify(o[i][2])
       \o StringifyPairs(o, i + 1, FALSE)

\* JSON.stringify(v)
Stringify(v) ==
  CASE v.t = "null" -> S_null
    [] v.t = "bool" -> IF v.b THEN S_true ELSE S_false
    [] v.t = "num" -> NumToStr(v.n)
    [] v.t = "str" -> Quote(v.s)
    [] v.t = "arr" -> <<"[">> \o StringifyElems(v.a, 1) \o <<"]">>
    [] v.t = "obj" -> <<"{">> \o StringifyPairs(v.o, 1, TRUE) \o <<"}">>
    [] OTHER -> S_undefined

(* ---------------------------------------------------------------------- *)
(* The values a provider's content can denote                              *)
(* ---------------------------------------------------------------------- *)
W_garlic == <<"g", "a", "r", "l", "i", "c">>
W_salt == <<"O", "p", "t", "i", "o", "n", "a", "l", ":", " ", "s", "a", "l", "t">>
W_lower == <<"o", "p", "t", "i", "o", "n", "a", "l", ":", " ", "x">>
W_bare == <<"O", "p", "t", "i", "o", "n", "a", "l">>
W_heat == <<"H", "e", "a", "t", " ", "o", "i", "l">>
W_stir == <<"S", "t", "i", "r">>
W_sure == <<"S", "u", "r", "e", "!", " ">>
W_enjoy == <<" ", "E", "n", "j", "o", "y">>
W_oops == <<"{", "o", "o", "p", "s", "}">>
W_set == <<"U", "s", "e", " ", "{", "a", "}", " ">>
W_key == <<"s", "k">>
W_eggs == <<"e", "g", "g", "s">>
W_blank == <<" ", "\n", " ">>
W_upstream == <<"q", "u", "o", "t", "a">>

\* the scenario of the specification: every field under its cap
RecipeSmall ==
  ObjV(<< <<K_title, StrV(W_stir)>>,
          <<K_intro, StrV(W_heat)>>,
          <<K_steps, ArrV(<<StrV(W_heat), StrV(W_stir)>>)>>,
          <<K_optional, ArrV(<<StrV(W_garlic), StrV(W_salt), StrV(W_lower), StrV(W_bare)>>)>>,
          <<K_note, StrV(W_salt)>> >>)

\* every field and every array one over its cap
RecipeLong ==
  ObjV(<< <<K_title, StrV(Rep("t", TitleMax + 1))>>,
          <<K_intro, StrV(Rep("i", IntroMax + 1))>>,
          <<K_steps, ArrV([i \in 1..(StepsMax + 1) |->
                            StrV(IF i = 1 THEN Rep("s", EntryMax + 1) ELSE <<"s", Digit(i)>>)])>>,
          <<K_optional, ArrV([i \in 1..(OptionalMax + 1) |->
                            StrV(CASE i = 1 -> Rep("o", EntryMax + 1)
                                   [] i = 2 -> OptionalPrefix \o Rep("p", EntryMax)
                                   [] i = 3 -> Rep("q", EntryMax - 5)
                                   [] OTHER -> <<"o", Digit(i)>>)])>>,
          <<K_note, StrV(Rep("n", NoteMax + 1))>> >>)

\* keys absent, or present with values of the wrong type
RecipeBroken ==
  ObjV(<< <<K_title, NumV(0)>>,
          <<K_intro, Null>>,
          <<K_steps, StrV(W_stir)>>,
          <<K_optional, NumV(5)>> >>)

\* arrays whose entries are not strings
RecipeMixed ==
  ObjV(<< <<K_title, NumV(42)>>,
          <<K_intro, BoolV(TRUE)>>,
          <<K_steps, ArrV(<<Null, NumV(0), BoolV(FALSE), StrV(W_stir)>>)>>,
          <<K_optional, ArrV(<<Null, NumV(7), ArrV(<<StrV(W_garlic), NumV(1)>>), ObjV(<<>>)>>)>>,
          <<K_note, ArrV(<<>>)>> >>)

JsonUniverse ==
  << RecipeSmall, RecipeLong, RecipeBroken, RecipeMixed,
     ObjV(<<>>), Null, NumV(5), StrV(W_stir), ArrV(<<StrV(W_stir)>>), BoolV(FALSE) >>

JsonTexts == [i \in 1..Len(JsonUniverse) |-> Stringify(JsonUniverse[i])]

\* JSON.parse(text), on the texts of JsonUniverse; any other text is a SyntaxError
JSONparse(text) ==
  IF \E i \in 1..Len(JsonTexts) : JsonTexts[i] = text
  THEN [ok |-> TRUE, v |-> JsonUniverse[CHOOSE i \in 1..Len(JsonTexts) : JsonTexts[i] = text]]
  ELSE [ok |-> FALSE, v |-> Undef]

\* text.match(/\{[\s\S]*\}$/): the leftmost "{" through the "}" that ends the text
TrailingMatch(text) ==
  IF text # <<>> /\ text[Len(text)] = "}" /\ \E i \in 1..Len(text) : text[i] = "{"
  THEN [ok |-> TRUE,
        s |-> SubSeq(text, CHOOSE i \in 1..Len(text) :
                              text[i] = "{" /\ \A j \in 1..(i - 1) : text[j] # "{",
                     Len(text))]
  ELSE [ok |-> FALSE, s |-> <<>>]

(* ---------------------------------------------------------------------- *)
(* Rate limiter                                                            *)
(* ---------------------------------------------------------------------- *)
\* recent.get(ip) || 0
LastSeen(rec, ip) == IF ip \in DOMAIN rec /\ rec[ip] # 0 THEN rec[ip] ELSE 0

MapSet_NoWrite(rec, ip, now) == rec

\* recent.set(ip, now)
MapSet(rec, ip, now) == [x \in (DOMAIN rec) \cup {ip} |-> IF x = ip THEN now ELSE rec[x]]

rateLimit_StoreOnDeny(rec, ip, now) ==
  [ok |-> ~(now - LastSeen(rec, ip) < windowMs), recent |-> MapSet(rec, ip, now)]

\* function rateLimit(ip, windowMs = 2500): the value returned and the map it leaves
rateLimit(rec, ip, now) ==
  IF now - LastSeen(rec, ip) < windowMs
  THEN [ok |-> FALSE, recent |-> rec]
  ELSE [ok |-> TRUE, recent |-> MapSet(rec, ip, now)]

(* ---------------------------------------------------------------------- *)
(* Handler: the computations between two await points                      *)
(* ---------------------------------------------------------------------- *)
IpConn == <<"1", ".", "1">>
IpFwd == <<"2", ".", "2">>
IpUnknown == <<"u", "n", "k", "n", "o", "w", "n">>
Ids == {IpConn, IpFwd, IpUnknown}

\* headers.get(name) is null when the header is absent
HeaderConn == <<Null, StrV(<<>>), StrV(IpConn)>>
HeaderFwd == <<Null, StrV(<<>>), StrV(IpFwd)>>
\* the header pairs a request can carry
Headers ==
  [h \in 1..(Len(HeaderConn) * Len(HeaderFwd)) |->
     [conn |-> HeaderConn[((h - 1) \div Len(HeaderFwd)) + 1],
      fwd |-> HeaderFwd[((h - 1) % Len(HeaderFwd)) + 1]]]

\* the requests that arrive: a POST with each header pair; a GET without headers and
\* with both; an OPTIONS without headers
Requests ==
  [h \in 1..Len(Headers) |-> [method |-> "POST", h |-> h]]
  \o << [method |-> "GET", h |-> 1],
        [method |-> "GET", h |-> Len(Headers)],
        [method |-> "OPTIONS", h |-> 1] >>

MethodAllowed_Get(method) == method \in {"POST", "GET"}

\* req.method !== "POST" is answered 405
MethodAllowed(method) == method = "POST"

ClientIp_ForwardedFirst(conn, fwd) ==
  IF Truthy(fwd) THEN fwd.s ELSE IF Truthy(conn) THEN conn.s ELSE IpUnknown

\* req.headers.get("x-nf-client-connection-ip") || req.headers.get("x-forwarded-for") || "unknown"
ClientIp(conn, fwd) ==
  IF Truthy(conn) THEN conn.s ELSE IF Truthy(fwd) THEN fwd.s ELSE IpUnknown

M_405 == <<"M", "e", "t", "h", "o", "d", " ", "N", "o", "t", " ", "A", "l", "l", "o", "w", "e", "d">>
M_429 == <<"T", "o", "o", " ", "m", "a", "n", "y", " ", "r", "e", "q", "u", "e", "s", "t", "s", ".", " ",
           "P", "l", "e", "a", "s", "e", " ", "s", "l", "o", "w", " ", "d", "o", "w", "n", ".">>
M_400 == <<"M", "i", "s", "s", "i", "n", "g", " ", "i", "n", "g", "r", "e", "d", "i", "e", "n", "t", "s">>
M_nokey == <<"S", "e", "r", "v", "e", "r", " ", "m", "i", "s", "s", "i", "n", "g", " ",
             "O", "P", "E", "N", "A", "I", "_", "A", "P", "I", "_", "K", "E", "Y">>
M_502 == <<"O", "p", "e", "n", "A", "I", " ", "r", "e", "q", "u", "e", "s", "t", " ",
           "f", "a", "i", "l", "e", "d">>
M_500 == <<"S", "e", "r", "v", "e", "r", " ", "e", "r", "r", "o", "r">>

\* the request bodies: what req.json() settles with
Bodies ==
  << [ok |-> FALSE, v |-> Undef],
     [ok |-> TRUE, v |-> Null],
     [ok |-> TRUE, v |-> NumV(5)],
     [ok |-> TRUE, v |-> ObjV(<<>>)],
     [ok |-> TRUE, v |-> ObjV(<< <<K_ingredients, StrV(<<>>)>> >>)],
     [ok |-> TRUE, v |-> ObjV(<< <<K_ingredients, StrV(W_blank)>> >>)],
     [ok |-> TRUE, v |-> ObjV(<< <<K_ingredients, NumV(0)>> >>)],
     [ok |-> TRUE, v |-> ObjV(<< <<K_ingredients, Null>> >>)],
     [ok |-> TRUE, v |-> ObjV(<< <<K_ingredients, StrV(Rep(" ", InputMax) \o W_eggs)>> >>)],
     [ok |-> TRUE, v |-> ObjV(<< <<K_ingredients, StrV(W_blank \o W_eggs \o W_blank)>> >>)],
     [ok |-> TRUE, v |-> ObjV(<< <<K_ingredients, StrV(Rep("e", InputMax + 1))>> >>)],
     [ok |-> TRUE, v |-> ObjV(<< <<K_ingredients, ArrV(<<StrV(W_eggs), NumV(2)>>)>> >>)] >>

\* await req.json().catch(() => ({}))
BodyObject(b) == IF b.ok THEN b.v ELSE ObjV(<<>>)

\* safeString(ingredients, 700).trim(), for a body the destructuring accepts
UserInput(obj) == Trim(safeString(Get(obj, K_ingredients), InputMax))

\* what resp.text() settles with
ErrTexts ==
  << [ok |-> FALSE, s |-> <<>>], [ok |-> TRUE, s |-> <<>>], [ok |-> TRUE, s |-> W_upstream] >>

ErrBody_NoFallback(e) == IF e.ok THEN e.s ELSE <<>>

\* await resp.text().catch(() => ""), then errText || "OpenAI request failed"
ErrBody(e) ==
  LET errText == IF e.ok THEN e.s ELSE <<>>
  IN IF errText # <<>> THEN errText ELSE M_502

Envelope(content) ==
  ObjV(<< <<K_choices, ArrV(<< ObjV(<< <<K_message, ObjV(<< <<K_content, content>> >>)>> >>) >>)>> >>)

\* what resp.json() settles with
Envelopes ==
  [i \in 1..Len(JsonTexts) |-> [ok |-> TRUE, v |-> Envelope(StrV(JsonTexts[i]))]]
  \o << [ok |-> TRUE, v |-> Envelope(StrV(W_blank \o JsonTexts[1] \o W_blank))],
        [ok |-> TRUE, v |-> Envelope(StrV(W_sure \o JsonTexts[1]))],
        [ok |-> TRUE, v |-> Envelope(StrV(W_set \o JsonTexts[1]))],
        [ok |-> TRUE, v |-> Envelope(StrV(JsonTexts[1] \o W_enjoy))],
        [ok |-> TRUE, v |-> Envelope(StrV(W_sure))],
        [ok |-> TRUE, v |-> Envelope(StrV(W_oops))],
        [ok |-> TRUE, v |-> Envelope(StrV(W_sure \o JsonTexts[6]))],
        [ok |-> TRUE, v |-> Envelope(StrV(<<>>))],
        [ok |-> TRUE, v |-> Envelope(Null)],
        [ok |-> TRUE, v |-> Envelope(NumV(5))],
        [ok |-> TRUE, v |-> ObjV(<< <<K_choices, ArrV(<<>>)>> >>)],
        [ok |-> TRUE, v |-> Null],
        [ok |-> FALSE, v |-> Undef] >>

\* json?.choices?.[0]?.message?.content?.trim() || "": calling trim on a content
\* that is not a string is a TypeError
ContentText(json) ==
  LET c == OptGet(OptGet(OptFirst(OptGet(json, K_choices)), K_message), K_content)
  IN CASE Nullish(c) -> [ok |-> TRUE, s |-> <<>>]
       [] c.t = "str" -> [ok |-> TRUE, s |-> Trim(c.s)]
       [] OTHER -> [ok |-> FALSE, s |-> <<>>]

\* try { parsed = JSON.parse(text) } catch { the trailing match, parsed, or an Error }
ParseContent(text) ==
  LET direct == JSONparse(text)
      match == TrailingMatch(text)
  IN IF direct.ok THEN direct
     ELSE IF match.ok THEN JSONparse(match.s)
     ELSE [ok |-> FALSE, v |-> Undef]

IsArray(v) == v.t = "arr"

PrefixOptional_Always(s) == OptionalPrefix \o <<" ">> \o s

\* s.startsWith("Optional:") ? s : `Optional: ${s}`
PrefixOptional(s) == IF StartsWith(s, OptionalPrefix) THEN s ELSE OptionalPrefix \o <<" ">> \o s

StepsOf_Reversed(a) ==
  [i \in 1..Min(Len(a), StepsMax) |->
     StrV(safeString(a[Min(Len(a), StepsMax) + 1 - i], EntryMax))]

\* parsed.steps.slice(0, 8).map(s => safeString(s, 220))
StepsOf(a) == [i \in 1..Min(Len(a), StepsMax) |-> StrV(safeString(a[i], EntryMax))]

\* parsed.optional.slice(0, 5).map(s => safeString(s, 220)).map(prefix)
OptionalOf(a) ==
  [i \in 1..Min(Len(a), OptionalMax) |-> StrV(PrefixOptional(safeString(a[i], EntryMax)))]

\* const out = { title, intro, steps, optional, note }, for a parsed value that is not null
BuildOut(parsed) ==
  ObjV(<< <<K_title, StrV(safeString(Get(parsed, K_title), TitleMax))>>,
          <<K_intro, StrV(safeString(Get(parsed, K_intro), IntroMax))>>,
          <<K_steps, IF IsArray(Get(parsed, K_steps))
                     THEN ArrV(StepsOf(Get(parsed, K_steps).a)) ELSE ArrV(<<>>)>>,
          <<K_optional, IF IsArray(Get(parsed, K_optional))
                        THEN ArrV(OptionalOf(Get(parsed, K_optional).a)) ELSE ArrV(<<>>)>>,
          <<K_note, StrV(safeString(Get(parsed, K_note), NoteMax))>> >>)

\* catch (e) { return new Response("Server error", { status: 500 }) }
Caught == [status |-> 500, body |-> M_500, out |-> Undef]

HandleBody_NoKeyCheck(b, key) ==
  LET obj == BodyObject(b)
  IN IF Nullish(obj)
     THEN [fetch |-> FALSE, status |-> 500, body |-> M_500, keyRead |-> FALSE]
     ELSE IF UserInput(obj) = <<>>
     THEN [fetch |-> FALSE, status |-> 400, body |-> M_400, keyRead |-> FALSE]
     ELSE [fetch |-> TRUE, status |-> 0, body |-> UserInput(obj), keyRead |-> TRUE]

\* lines 34-43: from the settled body to the outbound call; keyRead tells whether
\* process.env.OPENAI_API_KEY was consulted
HandleBody(b, key) ==
  LET obj == BodyObject(b)
  IN IF Nullish(obj)
     THEN [fetch |-> FALSE, status |-> 500, body |-> M_500, keyRead |-> FALSE]
     ELSE IF UserInput(obj) = <<>>
     THEN [fetch |-> FALSE, status |-> 400, body |-> M_400, keyRead |-> FALSE]
     ELSE IF ~Truthy(key)
     THEN [fetch |-> FALSE, status |-> 500, body |-> M_nokey, keyRead |-> TRUE]
     ELSE [fetch |-> TRUE, status |-> 0, body |-> UserInput(obj), keyRead |-> TRUE]

HandleJson_NoNullCheck(env) ==
  IF ~env.ok THEN Caught
  ELSE LET c == ContentText(env.v)
       IN IF ~c.ok THEN Caught
          ELSE LET p == ParseContent(c.s)
               IN IF ~p.ok THEN Caught
                  ELSE [status |-> 200, body |-> <<>>, out |-> BuildOut(p.v)]

\* lines 109-134: from the settled envelope to the response; the body of a 200 is
\* JSON.stringify(out)
HandleJson(env) ==
  IF ~env.ok THEN Caught
  ELSE LET c == ContentText(env.v)
       IN IF ~c.ok THEN Caught
          ELSE LET p == ParseContent(c.s)
               IN IF ~p.ok \/ Nullish(p.v) THEN Caught
                  ELSE [status |-> 200, body |-> <<>>, out |-> BuildOut(p.v)]

(* ---------------------------------------------------------------------- *)
(* State                                                                   *)
(* ---------------------------------------------------------------------- *)
VARIABLES
  clock,     \* Date.now()
  recent,    \* the Map recent: client identifier -> time of its last allowed call
  apiKey,    \* process.env.OPENAI_API_KEY
  inv,       \* the handler invocations: where each is suspended
  last,      \* the Response returned by the step just taken, if it returned one
  accepted   \* history: per client identifier, the times at which rateLimit returned true

vars == <<clock, recent, apiKey, inv, last, accepted>>

Slots == 1..MaxInFlight

TickSteps == {1250, 2500}

ApiKeys == <<Undef, StrV(<<>>), StrV(W_key)>>

FetchOutcomes == <<"throw", "ok", "failed">>

Idle == [pc |-> "idle", calls |-> 0]

\* what the step just taken consumed and returned: the kind of step, the index of the
\* input it consumed (headers, body, fetch outcome, error text or envelope; 0 if none),
\* the method and the client identifier of the request it started, the Response it
\* returned (status 0: none) and what the invocation had done by then
Step(kind, input, method, client, status, body, out, limited, bodyRead, keyRead, calls) ==
  [kind |-> kind, input |-> input, method |-> method, client |-> client,
   status |-> status, body |-> body, out |-> out, json |-> (status = 200),
   limited |-> limited, bodyRead |-> bodyRead, keyRead |-> keyRead, calls |-> calls]

NoStep == Step("tick", 0, "", <<>>, 0, <<>>, Undef, FALSE, FALSE, FALSE, 0)

Init ==
  /\ clock = 0
  /\ recent = << >>
  /\ \E k \in 1..Len(ApiKeys) : apiKey = ApiKeys[k]
  /\ inv = [r \in Slots |-> Idle]
  /\ last = NoStep
  /\ accepted = [ip \in Ids |-> << >>]

(* ---------------------------------------------------------------------- *)
(* Actions                                                                 *)
(* ---------------------------------------------------------------------- *)
\* time passes
Tick ==
  /\ \E d \in TickSteps : clock + d <= MaxClock /\ clock' = clock + d
  /\ last' = NoStep
  /\ UNCHANGED <<recent, apiKey, inv, accepted>>

\* lines 19-34: a request arrives with a method and the h-th header pair; the
\* invocation runs to its first await, req.json()
StartWith(r, method, h) ==
  /\ inv[r].pc = "idle"
  /\ IF ~MethodAllowed(method)
     THEN /\ last' = Step("start", 0, method, <<>>, 405, M_405, Undef, FALSE, FALSE, FALSE, 0)
          /\ UNCHANGED <<recent, inv, accepted>>
     ELSE LET ip == ClientIp(Headers[h].conn, Headers[h].fwd)
              rl == rateLimit(recent, ip, clock)
          IN /\ recent' = rl.recent
             /\ IF rl.ok
                THEN /\ accepted' = [accepted EXCEPT ![ip] = Append(@, clock)]
                     /\ inv' = [inv EXCEPT ![r].pc = "awaitBody"]
                     /\ last' = Step("start", h, method, ip, 0, <<>>, Undef,
                                     TRUE, FALSE, FALSE, 0)
                ELSE /\ last' = Step("start", h, method, ip, 429, M_429, Undef,
                                     TRUE, FALSE, FALSE, 0)
                     /\ UNCHANGED <<inv, accepted>>
  /\ UNCHANGED <<clock, apiKey>>

Start(r) == \E q \in 1..Len(Requests) : StartWith(r, Requests[q].method, Requests[q].h)

\* HandleBody on each body, under each configuration
BodyOutcomes ==
  [i \in 1..Len(Bodies) |-> [k \in 1..Len(ApiKeys) |-> HandleBody(Bodies[i], ApiKeys[k])]]

BodyReadWith_Rollback(r, i) ==
  /\ inv[r].pc = "awaitBody"
  /\ LET h == BodyOutcomes[i][CHOOSE k \in 1..Len(ApiKeys) : ApiKeys[k] = apiKey]
     IN IF h.fetch
        THEN /\ inv' = [inv EXCEPT ![r] = [pc |-> "awaitFetch", calls |-> inv[r].calls + 1]]
             /\ last' = Step("body", i, "", <<>>, 0, <<>>, Undef,
                             TRUE, TRUE, h.keyRead, inv[r].calls + 1)
             /\ recent' = recent
        ELSE /\ inv' = [inv EXCEPT ![r] = Idle]
             /\ last' = Step("body", i, "", <<>>, h.status, h.body, Undef,
                             TRUE, TRUE, h.keyRead, inv[r].calls)
             /\ recent' = << >>
  /\ UNCHANGED <<clock, apiKey, accepted>>

\* lines 34-102: req.json() settles with the i-th body; the invocation answers, or
\* issues the outbound call and runs to the await of fetch
BodyReadWith(r, i) ==
  /\ inv[r].pc = "awaitBody"
  /\ LET h == BodyOutcomes[i][CHOOSE k \in 1..Len(ApiKeys) : ApiKeys[k] = apiKey]
     IN IF h.fetch
        THEN /\ inv' = [inv EXCEPT ![r] = [pc |-> "awaitFetch", calls |-> inv[r].calls + 1]]
             /\ last' = Step("body", i, "", <<>>, 0, <<>>, Undef,
                             TRUE, TRUE, h.keyRead, inv[r].calls + 1)
        ELSE /\ inv' = [inv EXCEPT ![r] = Idle]
             /\ last' = Step("body", i, "", <<>>, h.status, h.body, Undef,
                             TRUE, TRUE, h.keyRead, inv[r].calls)
  /\ UNCHANGED <<clock, recent, apiKey, accepted>>

BodyRead(r) == \E i \in 1..Len(Bodies) : BodyReadWith(r, i)

FetchSettleWith_Retry(r, o) ==
  /\ inv[r].pc = "awaitFetch"
  /\ CASE FetchOutcomes[o] = "throw" ->
            /\ inv' = [inv EXCEPT ![r] = Idle]
            /\ last' = Step("fetch", o, "", <<>>, Caught.status, Caught.body, Undef,
                            TRUE, TRUE, TRUE, inv[r].calls)
       [] FetchOutcomes[o] = "ok" ->
            /\ inv' = [inv EXCEPT ![r].pc = "awaitJson"]
            /\ last' = Step("fetch", o, "", <<>>, 0, <<>>, Undef, TRUE, TRUE, TRUE, inv[r].calls)
       [] OTHER ->
            IF inv[r].calls < 2
            THEN /\ inv' = [inv EXCEPT ![r].calls = @ + 1]
                 /\ last' = Step("fetch", o, "", <<>>, 0, <<>>, Undef,
                                 TRUE, TRUE, TRUE, inv[r].calls + 1)
            ELSE /\ inv' = [inv EXCEPT ![r].pc = "awaitText"]
                 /\ last' = Step("fetch", o, "", <<>>, 0, <<>>, Undef,
                                 TRUE, TRUE, TRUE, inv[r].calls)
  /\ UNCHANGED <<clock, recent, apiKey, accepted>>

\* lines 95-109: fetch settles: it throws, or gives a response whose ok flag is set
\* (resp.json() is awaited) or not (resp.text() is awaited)
FetchSettleWith(r, o) ==
  /\ inv[r].pc = "awaitFetch"
  /\ CASE FetchOutcomes[o] = "throw" ->
            /\ inv' = [inv EXCEPT ![r] = Idle]
            /\ last' = Step("fetch", o, "", <<>>, Caught.status, Caught.body, Undef,
                            TRUE, TRUE, TRUE, inv[r].calls)
       [] FetchOutcomes[o] = "ok" ->
            /\ inv' = [inv EXCEPT ![r].pc = "awaitJson"]
            /\ last' = Step("fetch", o, "", <<>>, 0, <<>>, Undef, TRUE, TRUE, TRUE, inv[r].calls)
       [] OTHER ->
            /\ inv' = [inv EXCEPT ![r].pc = "awaitText"]
            /\ last' = Step("fetch", o, "", <<>>, 0, <<>>, Undef, TRUE, TRUE, TRUE, inv[r].calls)
  /\ UNCHANGED <<clock, recent, apiKey, accepted>>

FetchSettle(r) == \E o \in 1..Len(FetchOutcomes) : FetchSettleWith(r, o)

\* lines 105-106: resp.text() settles with the e-th error text
TextReadWith(r, e) ==
  /\ inv[r].pc = "awaitText"
  /\ inv' = [inv EXCEPT ![r] = Idle]
  /\ last' = Step("text", e, "", <<>>, 502, ErrBody(ErrTexts[e]), Undef,
                  TRUE, TRUE, TRUE, inv[r].calls)
  /\ UNCHANGED <<clock, recent, apiKey, accepted>>

TextRead(r) == \E e \in 1..Len(ErrTexts) : TextReadWith(r, e)

\* HandleJson on each envelope
JsonOutcomes == [i \in 1..Len(Envelopes) |-> HandleJson(Envelopes[i])]

\* lines 109-138: resp.json() settles with the i-th envelope
JsonReadWith(r, i) ==
  /\ inv[r].pc = "awaitJson"
  /\ LET h == JsonOutcomes[i]
     IN last' = Step("json", i, "", <<>>, h.status, h.body, h.out,
                     TRUE, TRUE, TRUE, inv[r].calls)
  /\ inv' = [inv EXCEPT ![r] = Idle]
  /\ UNCHANGED <<clock, recent, apiKey, accepted>>

JsonRead(r) == \E i \in 1..Len(Envelopes) : JsonReadWith(r, i)

Next ==
  \/ Tick
  \/ \E r \in Slots : Start(r)
  \/ \E r \in Slots : BodyRead(r)
  \/ \E r \in Slots : FetchSettle(r)
  \/ \E r \in Slots : TextRead(r)
  \/ \E r \in Slots : JsonRead(r)

Spec == Init /\ [][Next]_vars

(* ---------------------------------------------------------------------- *)
(* Properties                                                              *)
(* ---------------------------------------------------------------------- *)
LastOf(q) == q[Len(q)]

\* slot r takes a step out of the await point pc
Leaves(r, pc) == inv[r].pc = pc /\ inv'[r].pc # pc

\* C1: two calls of rateLimit for the same client identifier that both return allowed
\* are at least windowMs apart, and the stored time of an identifier is always the time
\* of its last allowed call: a denied call does not move it, so a call less than
\* windowMs after the last allowed call is denied.
C1_Cooldown ==
  \A ip \in Ids :
    /\ \A i, j \in 1..Len(accepted[ip]) :
         i < j => accepted[ip][j] - accepted[ip][i] >= windowMs
    /\ ip \in DOMAIN recent <=> accepted[ip] # << >>
    /\ ip \in DOMAIN recent => recent[ip] = LastOf(accepted[ip])
    /\ (last.status = 429 /\ last.client = ip /\ ip \in DOMAIN recent)
         => clock - recent[ip] < windowMs

\* C1 witness: a client allowed twice, exactly windowMs apart, and then denied
C1_Witness ==
  \E ip \in Ids :
    /\ Len(accepted[ip]) = 2
    /\ accepted[ip][2] - accepted[ip][1] = windowMs
    /\ last.status = 429
    /\ last.client = ip

\* C2: rateLimit returns allowed exactly when the map has no entry for the client
\* identifier or the clock is at least windowMs past the stored time; an allowed call
\* stores the clock, a denied call leaves the map as it was.
C2_AllowedIffAbsentOrExpired ==
  [][(last'.kind = "start" /\ last'.limited) =>
       LET ip == last'.client
           allowed == last'.status # 429
       IN /\ allowed <=> (ip \notin DOMAIN recent \/ clock - recent[ip] >= windowMs)
          /\ allowed => recent' = MapSet(recent, ip, clock)
          /\ ~allowed => recent' = recent]_vars

\* C3: a request whose method is not POST is answered 405 and nothing else happens:
\* the map is unchanged, no invocation is left suspended, and the response follows no
\* rate-limit evaluation, body read, key read or outbound call.
C3_NonPost405 ==
  /\ []((last.kind = "start" /\ last.method # "POST")
          => /\ last.status = 405
             /\ last.body = M_405
             /\ ~last.limited /\ ~last.bodyRead /\ ~last.keyRead /\ last.calls = 0)
  /\ [][(last'.kind = "start" /\ last'.method # "POST")
          => recent' = recent /\ accepted' = accepted /\ inv' = inv]_vars

\* C3 witness: a GET answered 405 while the map holds an entry
C3_Witness == last.method = "GET" /\ last.status = 405 /\ DOMAIN recent # {}

\* the bodies that are unparsable, have no ingredients field, or whose ingredients are
\* empty once sanitized and trimmed
BodiesWithoutIngredients ==
  {i \in 1..Len(Bodies) :
     \/ ~Bodies[i].ok
     \/ ~HasKey(Bodies[i].v, K_ingredients)
     \/ Trim(safeString(Get(Bodies[i].v, K_ingredients), InputMax)) = <<>>}

\* the bodies that pass the ingredients check
BodiesWithIngredients == (1..Len(Bodies)) \ BodiesWithoutIngredients

\* C4: a POST admitted by the rate limiter whose body is unparsable, lacks the
\* ingredients field or has ingredients that are empty after sanitizing and trimming
\* is answered 400 "Missing ingredients", and no outbound call is issued.
C4_MissingIngredients400 ==
  (last.kind = "body" /\ last.input \in BodiesWithoutIngredients)
    => last.status = 400 /\ last.body = M_400 /\ last.calls = 0

\* C5: a POST that passes the rate limiter and the ingredients check while the API key
\* is absent is answered 500 with the missing-configuration message, not "Server
\* error", and no outbound call is ever issued under that configuration.
C5_MissingKey500 ==
  ~Truthy(apiKey)
    => /\ last.calls = 0
       /\ \A r \in Slots : inv[r].pc \in {"idle", "awaitBody"} /\ inv[r].calls = 0
       /\ (last.kind = "body" /\ last.input \in BodiesWithIngredients)
            => /\ last.status = 500
               /\ last.body = M_nokey
               /\ last.body # M_500

\* C5 witness: the missing-configuration answer, given after the key was consulted
C5_Witness ==
  /\ ~Truthy(apiKey)
  /\ last.kind = "body" /\ last.input \in BodiesWithIngredients
  /\ last.status = 500 /\ last.body = M_nokey
  /\ last.limited /\ last.bodyRead /\ last.keyRead

\* C6: when the provider's status is not successful the handler answers 502 with the
\* provider's error text if that text is readable and not empty, with the generic
\* failure message otherwise; the provider's body is not parsed and no 200 is given.
C6_ProviderFailure502 ==
  /\ [](/\ (last.kind = "fetch" /\ FetchOutcomes[last.input] = "failed") => last.status = 0
        /\ last.kind = "text"
             => /\ last.status = 502
                /\ ~last.json
                /\ last.out.t = "undefined"
                /\ last.body = IF ErrTexts[last.input].ok /\ ErrTexts[last.input].s # <<>>
                               THEN ErrTexts[last.input].s ELSE M_502)
  /\ [][\A r \in Slots :
          /\ (Leaves(r, "awaitFetch") /\ FetchOutcomes[last'.input] = "failed")
               => inv'[r].pc = "awaitText"
          /\ Leaves(r, "awaitText") => last'.kind = "text" /\ inv'[r] = Idle]_vars

\* C6 witness: a 502 that carries the provider's error text
C6_Witness == last.kind = "text" /\ last.status = 502 /\ last.body = W_upstream

\* the envelopes on which the handler fails: unreadable, content that is not a string,
\* content that neither parses nor has a parsable trailing object, or a parsed null
FailingEnvelopes ==
  {i \in 1..Len(Envelopes) :
     \/ ~Envelopes[i].ok
     \/ ~ContentText(Envelopes[i].v).ok
     \/ ~ParseContent(ContentText(Envelopes[i].v).s).ok
     \/ Nullish(ParseContent(ContentText(Envelopes[i].v).s).v)}

\* the value the handler parses out of each envelope on which it does not fail
ParsedOf ==
  [i \in 1..Len(Envelopes) |->
     IF i \in FailingEnvelopes THEN Undef
     ELSE ParseContent(ContentText(Envelopes[i].v).s).v]

IsServerError(resp) == resp.status = 500 /\ resp.body = M_500 /\ ~resp.json

\* C7: every invocation ends with a response, and every failure after the method check
\* (the outbound call throwing, an unreadable envelope, content that is not JSON, a
\* trailing match that does not parse, a parsed null) is answered 500 "Server error";
\* a 500 carries one of the two fixed texts only.
C7_CatchAll ==
  /\ [](/\ last.status \in {0, 200, 400, 405, 429, 500, 502}
        /\ last.status = 500 => last.body \in {M_500, M_nokey}
        /\ (last.kind = "fetch" /\ FetchOutcomes[last.input] = "throw") => IsServerError(last)
        /\ (last.kind = "json" /\ last.input \in FailingEnvelopes) => IsServerError(last))
  /\ [][\A r \in Slots :
          (inv[r].pc # "idle" /\ inv'[r].pc = "idle")
            => last'.status \in {200, 400, 500, 502}]_vars

\* C7 witness: "Server error" answered for content that is not JSON
C7_Witness ==
  /\ last.kind = "json" /\ last.input \in FailingEnvelopes /\ Envelopes[last.input].ok
  /\ IsServerError(last) /\ last.calls = 1

FiveKeys == {K_title, K_intro, K_steps, K_optional, K_note}

\* the field k of the object of a 200 response
Field(resp, k) == Get(resp.out, k)

\* C8: every 200 response has the five keys title, intro, steps, optional and note,
\* title of at most 140 characters, intro of at most 420, note of at most 260, steps of
\* at most 8 entries of at most 220 characters; a string field missing from the parsed
\* object is the empty string and a steps or optional that is not an array is empty.
C8_OutputSchema ==
  /\ last.status = 200
       => /\ last.out.t = "obj"
          /\ \A k \in FiveKeys : HasKey(last.out, k)
          /\ \A k \in {K_title, K_intro, K_note} : Field(last, k).t = "str"
          /\ \A k \in {K_steps, K_optional} : Field(last, k).t = "arr"
          /\ Len(Field(last, K_title).s) <= TitleMax
          /\ Len(Field(last, K_intro).s) <= IntroMax
          /\ Len(Field(last, K_note).s) <= NoteMax
          /\ Len(Field(last, K_steps).a) <= StepsMax
          /\ \A k \in 1..Len(Field(last, K_steps).a) :
               /\ Field(last, K_steps).a[k].t = "str"
               /\ Len(Field(last, K_steps).a[k].s) <= EntryMax
          /\ \A k \in 1..Len(Field(last, K_optional).a) :
               Field(last, K_optional).a[k].t = "str"
  /\ (last.kind = "json" /\ last.input \notin FailingEnvelopes)
       => /\ last.status = 200
          /\ \A k \in {K_title, K_intro, K_note} :
               ~HasKey(ParsedOf[last.input], k) => Field(last, k).s = <<>>
          /\ \A k \in {K_steps, K_optional} :
               Get(ParsedOf[last.input], k).t # "arr" => Field(last, k).a = <<>>

\* C8 witness: a 200 whose title, first step and steps array are cut to their caps
C8_Witness ==
  /\ last.status = 200
  /\ Len(Field(last, K_title).s) = TitleMax
  /\ Len(Field(last, K_steps).a) = StepsMax
  /\ Len(Field(last, K_steps).a[1].s) = EntryMax

\* C9: in every 200 response optional has at most 5 entries and every entry, the
\* prefixed ones included, is at most 220 characters long.
C9_OptionalCaps ==
  last.status = 200
    => /\ Len(Field(last, K_optional).a) <= OptionalMax
       /\ \A k \in 1..Len(Field(last, K_optional).a) :
            Len(Field(last, K_optional).a[k].s) <= EntryMax

\* C10: each entry of a parsed optional array, capped to 220 characters, comes out
\* with "Optional: " put before it if it does not begin with "Optional:" and as it is
\* if it does; every optional entry of a 200 response begins with "Optional:".
C10_OptionalPrefix ==
  /\ last.status = 200
       => \A k \in 1..Len(Field(last, K_optional).a) :
            StartsWith(Field(last, K_optional).a[k].s, OptionalPrefix)
  /\ (last.status = 200 /\ Get(ParsedOf[last.input], K_optional).t = "arr")
       => LET given == Get(ParsedOf[last.input], K_optional).a
              made == Field(last, K_optional).a
          IN /\ Len(made) = Min(Len(given), OptionalMax)
             /\ \A k \in 1..Len(made) :
                  LET e == safeString(given[k], EntryMax)
                  IN IF StartsWith(e, OptionalPrefix)
                     THEN made[k].s = e
                     ELSE /\ Len(made[k].s) = Len(OptionalPrefix) + 1 + Len(e)
                          /\ SubSeq(made[k].s, 1, Len(OptionalPrefix)) = OptionalPrefix
                          /\ made[k].s[Len(OptionalPrefix) + 1] = " "
                          /\ SubSeq(made[k].s, Len(OptionalPrefix) + 2, Len(made[k].s)) = e

\* C10 witness: a 200 with an entry that got the prefix and an entry that kept its own
C10_Witness ==
  /\ last.status = 200
  /\ Len(Field(last, K_optional).a) >= 2
  /\ Field(last, K_optional).a[1].s = OptionalPrefix \o <<" ">> \o W_garlic
  /\ Field(last, K_optional).a[2].s = W_salt

\* the sanitization of lines 121-129 applied to the object of each 200 response
SanitizedAgain ==
  [i \in 1..Len(Envelopes) |->
     IF JsonOutcomes[i].status = 200 THEN BuildOut(JsonOutcomes[i].out) ELSE Undef]

\* C11: the output sanitization is idempotent: sanitizing the object of a 200 response
\* again gives the same object, with no field or entry cut further and no prefix added.
C11_Idempotent ==
  last.status = 200 => SanitizedAgain[last.input] = last.out

\* for each envelope, the object of JsonUniverse whose text ends a content that is not
\* itself JSON and has other text before that object; 0 if there is none
TrailingObjectOf ==
  [i \in 1..Len(Envelopes) |->
     IF Envelopes[i].ok /\ ContentText(Envelopes[i].v).ok
        /\ ~JSONparse(ContentText(Envelopes[i].v).s).ok
     THEN LET c == ContentText(Envelopes[i].v).s
              Ends(j) == /\ JsonUniverse[j].t = "obj"
                         /\ Len(JsonTexts[j]) < Len(c)
                         /\ SubSeq(c, Len(c) - Len(JsonTexts[j]) + 1, Len(c)) = JsonTexts[j]
          IN IF \E j \in 1..Len(JsonTexts) : Ends(j)
             THEN CHOOSE j \in 1..Len(JsonTexts) : Ends(j)
             ELSE 0
     ELSE 0]

\* C12: a content that is not JSON but ends with a well-formed JSON object, whatever
\* the text before it (braces included), is answered 200 from exactly that object.
C12_FallbackRecovers ==
  (last.kind = "json" /\ TrailingObjectOf[last.input] # 0)
    => /\ last.status = 200
       /\ last.out = BuildOut(JsonUniverse[TrailingObjectOf[last.input]])

\* a parsed value that matches the schema: title, intro and note strings, steps and
\* optional arrays of strings
IsStrings(v) == v.t = "arr" /\ \A k \in 1..Len(v.a) : v.a[k].t = "str"

MatchesSchema(v) ==
  /\ v.t = "obj"
  /\ \A k \in {K_title, K_intro, K_note} : HasKey(v, k) /\ Get(v, k).t = "str"
  /\ \A k \in {K_steps, K_optional} : HasKey(v, k) /\ IsStrings(Get(v, k))

\* the envelopes whose content is valid JSON matching the schema
SchemaEnvelopes ==
  {i \in 1..Len(Envelopes) :
     /\ Envelopes[i].ok
     /\ ContentText(Envelopes[i].v).ok
     /\ JSONparse(ContentText(Envelopes[i].v).s).ok
     /\ MatchesSchema(JSONparse(ContentText(Envelopes[i].v).s).v)}

\* s is the first characters of t, as many as the cap allows
IsCut(s, t, cap) ==
  /\ Len(s) = IF Len(t) < cap THEN Len(t) ELSE cap
  /\ \A k \in 1..Len(s) : s[k] = t[k]

\* C13: for a content that is valid JSON matching the schema the 200 output is the
\* parsed object with title, intro and note cut to 140, 420 and 260 characters, steps
\* to its first 8 entries and optional to its first 5, in their order, each entry cut
\* to 220 characters; an optional entry comes out behind "Optional: " if it does not
\* begin with "Optional:"; what is within the caps is otherwise unchanged.
C13_SchemaPreserved ==
  (last.kind = "json" /\ last.input \in SchemaEnvelopes)
    => LET given == ParsedOf[last.input]
       IN /\ last.status = 200
          /\ IsCut(Field(last, K_title).s, Get(given, K_title).s, TitleMax)
          /\ IsCut(Field(last, K_intro).s, Get(given, K_intro).s, IntroMax)
          /\ IsCut(Field(last, K_note).s, Get(given, K_note).s, NoteMax)
          /\ Len(Field(last, K_steps).a)
               = (IF Len(Get(given, K_steps).a) < StepsMax
                  THEN Len(Get(given, K_steps).a) ELSE StepsMax)
          /\ \A k \in 1..Len(Field(last, K_steps).a) :
               IsCut(Field(last, K_steps).a[k].s, Get(given, K_steps).a[k].s, EntryMax)
          /\ Len(Field(last, K_optional).a)
               = (IF Len(Get(given, K_optional).a) < OptionalMax
                  THEN Len(Get(given, K_optional).a) ELSE OptionalMax)
          /\ \A k \in 1..Len(Field(last, K_optional).a) :
               LET made == Field(last, K_optional).a[k].s
                   from == Get(given, K_optional).a[k].s
               IN IF StartsWith(from, OptionalPrefix)
                  THEN IsCut(made, from, EntryMax)
                  ELSE /\ SubSeq(made, 1, Len(OptionalPrefix) + 1) = OptionalPrefix \o <<" ">>
                       /\ IsCut(SubSeq(made, Len(OptionalPrefix) + 2, Len(made)), from, EntryMax)
          /\ (Len(Get(given, K_title).s) <= TitleMax
                => Field(last, K_title) = Get(given, K_title))
          /\ (Len(Get(given, K_steps).a) <= StepsMax
              /\ \A k \in 1..Len(Get(given, K_steps).a) :
                   Len(Get(given, K_steps).a[k].s) <= EntryMax)
                => Field(last, K_steps) = Get(given, K_steps)

\* C13 witness: the recipe with everything under its cap answered with its title,
\* intro, steps and note as given and its unprefixed optional entry prefixed; and the
\* recipe with everything over its cap answered cut
C13_Witness ==
  /\ last.kind = "json" /\ last.input \in SchemaEnvelopes /\ last.status = 200
  /\ \/ /\ ParsedOf[last.input] = RecipeSmall
        /\ Field(last, K_steps) = Get(RecipeSmall, K_steps)
        /\ Field(last, K_optional).a[1].s = OptionalPrefix \o <<" ">> \o W_garlic
     \/ /\ ParsedOf[last.input] = RecipeLong
        /\ Len(Field(last, K_steps).a) = StepsMax
        /\ Len(Field(last, K_note).s) = NoteMax

\* the string representation the specification gives a value: empty for an absent,
\* null or undefined value, String(value) for every other
Representation(v) == IF Nullish(v) THEN <<>> ELSE StringOf(v)

\* C14: sanitize(value, maxLength) is the first maxLength characters of the value's
\* string representation, which is empty only for an absent, null or undefined value:
\* 0 gives "0" and false gives "false". Stated on the values the handler sanitizes:
\* the title, intro and note and the steps entries of a parsed object.
C14_Sanitize ==
  (last.kind = "json" /\ last.status = 200)
    => LET given == ParsedOf[last.input]
       IN /\ IsCut(Field(last, K_title).s, Representation(Get(given, K_title)), TitleMax)
          /\ IsCut(Field(last, K_intro).s, Representation(Get(given, K_intro)), IntroMax)
          /\ IsCut(Field(last, K_note).s, Representation(Get(given, K_note)), NoteMax)
          /\ Get(given, K_steps).t = "arr"
               => \A k \in 1..Len(Field(last, K_steps).a) :
                    IsCut(Field(last, K_steps).a[k].s,
                          Representation(Get(given, K_steps).a[k]), EntryMax)

\* C15: an invocation issues at most one outbound call: an invocation suspended on the
\* call or on the provider's body has issued exactly one, one that has not read its body
\* has issued none, a response given after a provider failure, a thrown call or an
\* unusable content follows exactly one call, and the call is issued only by a POST
\* that was admitted by the rate limiter, had ingredients and found the API key.
C15_SingleCall ==
  /\ \A r \in Slots :
       /\ inv[r].pc \in {"idle", "awaitBody"} => inv[r].calls = 0
       /\ inv[r].pc \in {"awaitFetch", "awaitText", "awaitJson"} => inv[r].calls = 1
  /\ last.calls <= 1
  /\ last.kind \in {"fetch", "text", "json"} => last.calls = 1
  /\ last.kind \in {"tick", "start"} => last.calls = 0
  /\ last.calls = 1
       => /\ last.limited /\ last.bodyRead /\ last.keyRead
          /\ Truthy(apiKey)
          /\ last.status \notin {400, 405, 429}
          /\ last.status = 500 => last.body = M_500
  /\ (last.kind = "body" /\ last.calls = 1)
       => last.input \in BodiesWithIngredients /\ last.status = 0

\* C15 witness: a 502, a 500 after a thrown call and a 500 after an unusable content,
\* each given after one call
C15_Witness ==
  /\ last.calls = 1
  /\ \/ last.kind = "text" /\ last.status = 502
     \/ last.kind = "fetch" /\ last.status = 500
     \/ last.kind = "json" /\ last.status = 500

\* a header that is present and not empty
Identifies(hv) == hv.t = "str" /\ Len(hv.s) > 0

\* C16: the client identifier of a POST is the connection-IP header if present and not
\* empty, otherwise the forwarded-for header if present and not empty, otherwise
\* "unknown"; it is never empty; it is the key under which an admission is stored, so
\* all requests without an identifying header are admitted and denied under "unknown".
C16_ClientIdentifier ==
  (last.kind = "start" /\ last.limited)
    => LET H == Headers[last.input]
       IN /\ Identifies(H.conn) => last.client = H.conn.s
          /\ (~Identifies(H.conn) /\ Identifies(H.fwd)) => last.client = H.fwd.s
          /\ (~Identifies(H.conn) /\ ~Identifies(H.fwd)) => last.client = IpUnknown
          /\ last.client # <<>>
          /\ last.client \in Ids
          /\ last.status # 429
               => /\ last.client \in DOMAIN recent
                  /\ recent[last.client] = clock
                  /\ LastOf(accepted[last.client]) = clock
          /\ last.status = 429
               => (last.client \in DOMAIN recent => clock - recent[last.client] < windowMs)

\* C16 witness: a POST whose two headers are present but empty, denied because of the
\* admission of an earlier request stored under "unknown"
C16_Witness ==
  /\ last.kind = "start" /\ last.status = 429
  /\ Headers[last.input].conn = StrV(<<>>) /\ Headers[last.input].fwd = StrV(<<>>)
  /\ last.client = IpUnknown
  /\ IpUnknown \in DOMAIN recent
  /\ \A ip \in Ids \ {IpUnknown} : ip \notin DOMAIN recent

\* C17: the checks fire in the order method, rate limit, ingredients, API key, provider
\* status, content parse, and the response is that of the first check that fails: a
\* method other than POST gets 405 whatever else holds, a denied POST gets 429 before
\* its body is read, a body without ingredients gets 400 whether or not the key is set,
\* a body with ingredients gets the missing-key 500 before any call, a provider
\* failure gets 502 before the content is looked at, and a 200 follows all of them.
C17_CheckOrder ==
  /\ (last.kind = "start" /\ last.method # "POST") => last.status = 405 /\ ~last.limited
  /\ last.status = 405 => last.kind = "start" /\ ~last.limited /\ ~last.bodyRead
  /\ last.status = 429 => last.kind = "start" /\ last.limited /\ ~last.bodyRead
  /\ (last.kind = "body" /\ last.input \in BodiesWithoutIngredients)
       => last.status = 400 /\ ~last.keyRead /\ last.calls = 0
  /\ last.status = 400 => last.kind = "body" /\ last.limited /\ ~last.keyRead
  /\ (last.kind = "body" /\ last.input \in BodiesWithIngredients /\ ~Truthy(apiKey))
       => last.status = 500 /\ last.body = M_nokey /\ last.calls = 0
  /\ (last.status = 500 /\ last.body = M_nokey)
       => last.kind = "body" /\ last.keyRead /\ last.calls = 0
  /\ last.kind = "text" => last.status = 502
  /\ last.status = 502 => last.kind = "text" /\ last.keyRead /\ last.calls = 1
  /\ last.status = 200
       => /\ last.kind = "json" /\ last.input \notin FailingEnvelopes
          /\ last.limited /\ last.bodyRead /\ last.keyRead /\ last.calls = 1

\* C18: with several invocations in flight, interleaved at their await points only, an
\* invocation is never suspended between the rate limiter's lookup and its update: the
\* map holds the time of every admission in every state, and two admissions of the same
\* client identifier are never less than windowMs apart.
C18_NoInterleavedAdmission ==
  /\ \A r \in Slots : inv[r].pc \in {"idle", "awaitBody", "awaitFetch", "awaitText", "awaitJson"}
  /\ \A ip \in Ids :
       /\ accepted[ip] # << >>
            => ip \in DOMAIN recent /\ recent[ip] = LastOf(accepted[ip])
       /\ \A j \in 2..Len(accepted[ip]) : accepted[ip][j] - accepted[ip][j - 1] >= windowMs
       /\ \A j \in 1..Len(accepted[ip]) : accepted[ip][j] <= clock

\* C18 witness: two requests of the same client both admitted, windowMs apart, and both
\* still in flight
C18_Witness ==
  /\ \A r \in Slots : inv[r].pc # "idle"
  /\ \E r \in Slots : inv[r].pc = "awaitBody"
  /\ \E ip \in Ids :
       /\ Len(accepted[ip]) = MaxInFlight
       /\ accepted[ip][2] - accepted[ip][1] = windowMs
       /\ \A other \in Ids \ {ip} : accepted[other] = << >>

\* C19: an admitted POST consumes its client's cooldown whatever its outcome: the time
\* is stored when the request is admitted, before its body is read, the key is
\* consulted or the provider is called; it is still stored after a 400, 500 or 502; and
\* a POST of a client is admitted only if the client's previous admission, whatever
\* became of it, is at least windowMs back.
C19_CooldownConsumed ==
  /\ (last.kind = "start" /\ last.limited /\ last.status = 0)
       => /\ recent[last.client] = clock
          /\ ~last.bodyRead /\ ~last.keyRead /\ last.calls = 0
          /\ Len(accepted[last.client]) >= 2
               => clock - accepted[last.client][Len(accepted[last.client]) - 1] >= windowMs
  /\ (last.kind \in {"body", "fetch", "text", "json"} /\ last.status \in {400, 500, 502})
       => /\ \E ip \in Ids : accepted[ip] # << >>
          /\ \A ip \in Ids :
               accepted[ip] # << >>
                 => ip \in DOMAIN recent /\ recent[ip] = LastOf(accepted[ip])
  /\ (last.status = 429 /\ last.client \in DOMAIN recent)
       => recent[last.client] = LastOf(accepted[last.client])

\* C19 witness: without an API key no request produces a recipe; the one request that
\* was admitted has ended and a following POST of its client, inside the window, is
\* answered 429
C19_Witness ==
  /\ ~Truthy(apiKey)
  /\ last.kind = "start" /\ last.status = 429
  /\ \A r \in Slots : inv[r].pc = "idle"
  /\ Len(accepted[last.client]) = 1
  /\ \A ip \in Ids \ {last.client} : accepted[ip] = << >>
  /\ recent[last.client] = accepted[last.client][1]
  /\ clock - recent[last.client] < windowMs

====
